---- MODULE Spec2Model ----
(***************************************************************************)
(* Model of src/src/plugin.ts: the Plugin object that adds "previous" and  *)
(* "next" page buttons to the toolbar of snapshot reader tabs.             *)
(*                                                                         *)
(* The plugin's own state is the #updatedTabs set, the renderToolbar       *)
(* subscription and the asynchronous attachButtonsToReader invocations,    *)
(* each with its position (the await it is suspended on, or the return it  *)
(* left through).  The host (reader registry, reader promises, reader DOM, *)
(* event dispatch, clicks) is the environment.                             *)
(***************************************************************************)
EXTENDS Integers, Sequences, FiniteSets

\* the reader handles of the host, in the order Zotero.Reader._readers lists
\* them; a reader's tabID is its name
ReaderSeq == << "A", "B" >>

Readers == {ReaderSeq[n] : n \in DOMAIN ReaderSeq}

\* at most this many attachButtonsToReader invocations in one plugin lifetime
MaxCalls == 2

VARIABLES
    reg,          \* Zotero.Reader._readers: reader -> "none" | "snapshot" | "pdf"
    tb,           \* the 'div.toolbar .start' section of each reader: [built, kids]
    listener,     \* onRenderToolbar is registered for 'renderToolbar'
    phase,        \* which of startup() and shutdown() have been called
    startupP,     \* the promise startup() returned
    updatedTabs,  \* Plugin.#updatedTabs
    calls,        \* the attachButtonsToReader invocations, in call order
    lastObs,      \* what the host did last: an event dispatch, a click or a call
    observerID,   \* Plugin.#observerID, "none" for undefined
    notifier      \* the observer ids registered with Zotero.Notifier

vars == <<reg, tb, listener, phase, startupP, updatedTabs, calls, lastObs,
          observerID, notifier>>

----------------------------------------------------------------------------
\* reader.tabID
TabID(r) == r

\* isSnapshotReader accepting every reader
isSnapshotReaderAnyType(r) == reg[r] # "none"

\* isSnapshotReader: r.type === 'snapshot'
isSnapshotReader(r) == reg[r] = "snapshot"

\* A string is the sequence of its UTF-16 code units: "iframe" is
\* << 105, 102, 114, 97, 109, 101 >>. The code units the model has strings of:
\* Latin-1 and the dotless i.
CodeUnits == (0..255) \cup {305}

\* String.prototype.toUpperCase on one code unit (the Unicode default case
\* conversion): a-z and the Latin-1 lower-case letters move down by 32, the
\* micro sign becomes Greek capital mu, sharp s becomes SS, y with diaeresis
\* becomes its capital at 376, dotless i becomes I, anything else stays
UpperOf ==
    [c \in CodeUnits |->
        IF c \in 97..122 THEN << c - 32 >>
        ELSE IF c = 181 THEN << 924 >>
        ELSE IF c = 223 THEN << 83, 83 >>
        ELSE IF c \in (224..254) \ {247} THEN << c - 32 >>
        ELSE IF c = 255 THEN << 376 >>
        ELSE IF c = 305 THEN << 73 >>
        ELSE << c >>]

\* String.prototype.toUpperCase
RECURSIVE ToUpperCase(_)
ToUpperCase(s) ==
    IF s = << >> THEN << >> ELSE UpperOf[Head(s)] \o ToUpperCase(Tail(s))

\* isIframe: e.tagName.toUpperCase() === 'IFRAME'
isIframe(e) == ToUpperCase(e.tagName) = << 73, 70, 82, 65, 77, 69 >>

\* the tag names of the elements the selector '.primary-view iframe' matches,
\* those whose local name is iframe: "IFRAME" in an HTML document, "iframe"
\* and "iFrame" in an XML document, and with a namespace prefix "x:iframe"
\* and (e with acute accent) "\u00E9:iframe"
IframeTags ==
    {<< 73, 70, 82, 65, 77, 69 >>, << 105, 102, 114, 97, 109, 101 >>,
     << 105, 70, 114, 97, 109, 101 >>}
PrefixedTags ==
    {<< 120, 58, 105, 102, 114, 97, 109, 101 >>,
     << 233, 58, 105, 102, 114, 97, 109, 101 >>}

\* what doc.querySelector('.primary-view iframe') can return: null, or an
\* element of one of these tag names with or without a contentWindow
NoFrame == [tagName |-> << >>, contentWindow |-> FALSE]

FrameLookups ==
    {NoFrame} \cup
    {[tagName |-> t, contentWindow |-> w] : t \in IframeTags \cup PrefixedTags,
                                            w \in BOOLEAN}

\* what lines 134-137 can find: no document (and so no iframe), or a document
\* and the result of the iframe lookup
DocLookups ==
    {[doc |-> FALSE, iframe |-> NoFrame]} \cup
    {[doc |-> TRUE, iframe |-> f] : f \in FrameLookups}

\* the host's own content of the toolbar's leading section of a reader
HostKids ==
    << [tagName |-> "button", id |-> "sidebarToggle", title |-> "Toggle Sidebar",
        tabIndex |-> -1, classList |-> {"toolbar-button"}, svg |-> "none",
        doc |-> "host", click |-> << >>] >>

\* no section rendered yet; built is "no", then "once" while the section holds
\* all that was ever appended to it, then "again" once the host has put a new
\* section in place of one that held more than the host's own children
NoToolbar == [built |-> "no", kids |-> << >>]

\* getButton with the branches of line 190 exchanged
getButtonSwapped(d, type) ==
    [tagName |-> "button",
     classList |-> {"toolbar-button", "pageUp"},
     tabIndex |-> -1,
     title |-> IF type # "next" THEN "Next Page" ELSE "Previous Page",
     id |-> IF type # "next" THEN "next" ELSE "previous",
     svg |-> IF type # "next"
             THEN "m17.116 6 .884.884-8 8-8-8L2.884 6 10 13.116z"
             ELSE "M2.884 14 2 13.116l8-8 8 8-.884.884L10 6.884z",
     doc |-> d,
     click |-> << >>]

\* Plugin.getButton(doc, type)
getButton(d, type) ==
    [tagName |-> "button",
     classList |-> {"toolbar-button", "pageUp"},
     tabIndex |-> -1,
     title |-> IF type = "next" THEN "Next Page" ELSE "Previous Page",
     id |-> IF type = "next" THEN "next" ELSE "previous",
     svg |-> IF type = "next"
             THEN "m17.116 6 .884.884-8 8-8-8L2.884 6 10 13.116z"
             ELSE "M2.884 14 2 13.116l8-8 8 8-.884.884L10 6.884z",
     doc |-> d,
     click |-> << >>]

\* button.addEventListener('click', () => win.scrollByPages(delta))
addClick(b, w, delta) == [b EXCEPT !.click = Append(@, [win |-> w, delta |-> delta])]

\* toolbarSection.querySelector('#' + id)
querySelector(kids, id) == \E k \in DOMAIN kids : kids[k].id = id

\* how many children of a section carry the id
CountId(kids, id) == Cardinality({k \in DOMAIN kids : kids[k].id = id})

----------------------------------------------------------------------------
\* positions of an invocation: the await it is suspended on ...
Suspended == {"waitReader", "waitInit", "waitLoad", "gotWin", "gotNull"}

\* ... the early return it left through ...
SoftFail == {"retNotReady", "retNoWin", "retNoToolbar", "retHasButtons"}

\* ... or its other ends: the set guard, the end of the body, a rejection
Fulfilled == SoftFail \cup {"retGuard", "attached"}

NoObs == [kind |-> "none", reader |-> "none", target |-> "none", scrolls |-> << >>]

\* the invocations startup made
StartupCalls(c) == {i \in DOMAIN c : c[i].src = "startup"}

\* Promise.all over the invocations startup made
PromiseAll(c) ==
    LET mine == StartupCalls(c) IN
    IF \E i \in mine : c[i].pc = "rejected" THEN "rejected"
    ELSE IF \A i \in mine : c[i].pc \in Fulfilled THEN "fulfilled"
    ELSE "pending"


\* attachStart without the line 129 set guard
attachStartNoGuard(r, src) ==
    [reader |-> r, src |-> src, pc |-> "waitReader",
     doc |-> "unset", iframe |-> "unset"]

\* attachButtonsToReader(reader) up to its first await; doc and iframe are the
\* invocation's locals of lines 134-137, "unset" until it gets there, then
\* "null" or a reference ("prefixed" for one to a prefixed element)
attachStart(r, src) ==
    [reader |-> r, src |-> src,
     pc |-> IF TabID(r) \in updatedTabs THEN "retGuard" ELSE "waitReader",
     doc |-> "unset", iframe |-> "unset"]

Init ==
    /\ reg = [r \in Readers |-> "none"]
    /\ tb = [r \in Readers |-> NoToolbar]
    /\ listener = FALSE
    /\ phase = "new"
    /\ startupP = "none"
    /\ updatedTabs = {}
    /\ calls = << >>
    /\ lastObs = NoObs
    /\ observerID = "none"
    /\ notifier = {}

----------------------------------------------------------------------------
\* The host.

\* the host opens a reader tab of some content kind
HostOpenReader(r, t) ==
    /\ reg[r] = "none"
    /\ reg' = [reg EXCEPT ![r] = t]
    /\ UNCHANGED <<tb, listener, phase, startupP, updatedTabs, calls, lastObs, observerID, notifier>>

\* the host renders the reader's toolbar: a new leading section holding the
\* host's children (the first render, or a rebuild that drops what was added)
HostRenderToolbarDom(r) ==
    /\ reg[r] # "none"
    /\ tb' = [tb EXCEPT ![r] = [built |-> IF @.built = "no" THEN "once"
                                          ELSE IF @.kids # HostKids THEN "again"
                                          ELSE @.built,
                                 kids |-> HostKids]]
    /\ UNCHANGED <<reg, listener, phase, startupP, updatedTabs, calls, lastObs, observerID, notifier>>

\* the user clicks the k-th child of reader r's toolbar section, one that has
\* listeners added by line 162 or 163: they run, each calling
\* scrollByPages(delta) on its window
HostClick(r, k) ==
    /\ k \in DOMAIN tb[r].kids
    /\ tb[r].kids[k].click # << >>
    /\ lastObs' = [NoObs EXCEPT !.kind = "click", !.reader = r,
                                !.target = tb[r].kids[k].id,
                                !.scrolls = tb[r].kids[k].click]
    /\ UNCHANGED <<reg, tb, listener, phase, startupP, updatedTabs, calls, observerID, notifier>>

----------------------------------------------------------------------------
\* The plugin.

\* onRenderToolbar(e): the invocations after the listener ran for reader r
onRenderToolbar(r) ==
    IF isSnapshotReader(r) THEN Append(calls, attachStart(r, "render")) ELSE calls

\* the host dispatches 'renderToolbar' for reader r to the registered listeners
HostFireRenderToolbar(r) ==
    /\ reg[r] # "none"
    /\ listener /\ isSnapshotReader(r) => Len(calls) < MaxCalls
    /\ calls' = IF listener THEN onRenderToolbar(r) ELSE calls
    /\ lastObs' = [NoObs EXCEPT !.kind = "renderToolbar", !.reader = r]
    /\ UNCHANGED <<reg, tb, listener, phase, startupP, updatedTabs, observerID, notifier>>

\* handleExistingTabs attaching to the first snapshot reader only
handleExistingTabsFirstOnly ==
    LET readers == SelectSeq(ReaderSeq, isSnapshotReader) IN
    [n \in DOMAIN readers \cap {1} |-> attachStart(readers[n], "startup")]

\* handleExistingTabs: _readers.filter(isSnapshotReader).map(attachButtonsToReader)
handleExistingTabs ==
    LET readers == SelectSeq(ReaderSeq, isSnapshotReader) IN
    [n \in DOMAIN readers |-> attachStart(readers[n], "startup")]

\* startup() not registering the listener
registerEventListenerMissing == FALSE

\* Zotero.Reader.registerEventListener('renderToolbar', this.onRenderToolbar, id)
registerEventListener == TRUE

\* shutdown() leaving the listener registered
unregisterEventListenerSkipped == listener

\* Zotero.Reader.unregisterEventListener('renderToolbar', this.onRenderToolbar)
unregisterEventListener == FALSE

\* startup() up to its return: register the listener, start an invocation per
\* existing snapshot reader, await Promise.all of them; the promise it returns
\* is pending
Startup ==
    /\ phase = "new"
    /\ Len(calls) + Len(handleExistingTabs) <= MaxCalls
    /\ phase' = "started"
    /\ listener' = registerEventListener
    /\ calls' = calls \o handleExistingTabs
    /\ startupP' = "pending"
    /\ UNCHANGED <<reg, tb, updatedTabs, lastObs, observerID, notifier>>

\* the jobs that follow the end of the invocations startup() awaits:
\* Promise.all settles, handleExistingTabs logs and returns, and the promise
\* startup() returned settles the same way
SettleStartup ==
    /\ startupP = "pending"
    /\ PromiseAll(calls) # "pending"
    /\ startupP' = PromiseAll(calls)
    /\ UNCHANGED <<reg, tb, listener, phase, updatedTabs, calls, lastObs,
                   observerID, notifier>>

\* shutdown() also forgetting the tabs it attached to
ShutdownClearsTabs ==
    /\ phase = "started"
    /\ phase' = "stopped"
    /\ listener' = unregisterEventListener
    /\ updatedTabs' = {}
    /\ UNCHANGED <<reg, tb, startupP, calls, lastObs, observerID, notifier>>

\* shutdown(): unregister the listener
Shutdown ==
    /\ phase = "started"
    /\ phase' = "stopped"
    /\ listener' = unregisterEventListener
    /\ UNCHANGED <<reg, tb, startupP, updatedTabs, calls, lastObs, observerID, notifier>>

\* ResumeReader not awaiting reader._initPromise and the frame's window
ResumeReaderSkipsInit(i, ok) ==
    /\ calls[i].pc = "waitReader"
    /\ calls' = [calls EXCEPT ![i].pc = IF ok THEN "gotWin" ELSE "rejected"]
    /\ UNCHANGED <<reg, tb, listener, phase, startupP, updatedTabs, lastObs, observerID, notifier>>

\* ResumeReader for invocations awaited one after the other
ResumeReaderInOrder(i, ok) ==
    /\ calls[i].pc = "waitReader"
    /\ \A j \in 1..(i - 1) : calls[j].pc \notin Suspended
    /\ calls' = [calls EXCEPT ![i].pc = IF ok THEN "waitInit" ELSE "rejected"]
    /\ UNCHANGED <<reg, tb, listener, phase, startupP, updatedTabs, lastObs, observerID, notifier>>

\* line 132: await reader._waitForReader() settles for invocation i
ResumeReader(i, ok) ==
    /\ calls[i].pc = "waitReader"
    /\ calls' = [calls EXCEPT ![i].pc = IF ok THEN "waitInit" ELSE "rejected"]
    /\ UNCHANGED <<reg, tb, listener, phase, startupP, updatedTabs, lastObs, observerID, notifier>>

\* afterInit without the isIframe test of line 138
afterInitNoTagCheck(d, f) ==
    IF ~d \/ f = NoFrame THEN "retNotReady"
    ELSE IF f.contentWindow THEN "gotWin"
    ELSE "waitLoad"

\* lines 134-142 and getIFrameWindow: with the document there or not (d) and
\* the iframe lookup returning f, the position the invocation moves to
afterInit(d, f) ==
    IF ~d \/ f = NoFrame \/ ~isIframe(f) THEN "retNotReady"
    ELSE IF f.contentWindow THEN "gotWin"
    ELSE "waitLoad"

\* line 133: reader._initPromise rejects for invocation i
RejectInit(i) ==
    /\ calls[i].pc = "waitInit"
    /\ calls' = [calls EXCEPT ![i].pc = "rejected"]
    /\ UNCHANGED <<reg, tb, listener, phase, startupP, updatedTabs, lastObs, observerID, notifier>>

\* line 133: await reader._initPromise resolves for invocation i, which runs
\* on to its next await or return
ResumeInit(i, d, f) ==
    /\ calls[i].pc = "waitInit"
    /\ calls' = [calls EXCEPT ![i].pc = afterInit(d, f),
                             ![i].doc = IF d THEN "document" ELSE "null",
                             ![i].iframe = IF ~d \/ f = NoFrame THEN "null"
                                           ELSE IF f.tagName \in IframeTags
                                           THEN "element"
                                           ELSE "prefixed"]
    /\ UNCHANGED <<reg, tb, listener, phase, startupP, updatedTabs, lastObs, observerID, notifier>>

\* getIFrameWindow's load listener: resolve(iframe.contentWindow || null)
ResumeLoad(i, w) ==
    /\ calls[i].pc = "waitLoad"
    /\ calls' = [calls EXCEPT ![i].pc = IF w THEN "gotWin" ELSE "gotNull"]
    /\ UNCHANGED <<reg, tb, listener, phase, startupP, updatedTabs, lastObs, observerID, notifier>>

\* afterWin with the test of line 148 inverted
afterWinToolbarInverted(r, win) ==
    IF ~win THEN "retNoWin"
    ELSE IF tb[r].built # "no" THEN "retNoToolbar"
    ELSE IF querySelector(tb[r].kids, "next") \/ querySelector(tb[r].kids, "previous")
         THEN "retHasButtons"
    ELSE "attached"

\* afterWin giving up once shutdown() has run
afterWinCancelled(r, win) ==
    IF ~win \/ phase = "stopped" THEN "retNoWin"
    ELSE IF tb[r].built = "no" THEN "retNoToolbar"
    ELSE IF querySelector(tb[r].kids, "next") \/ querySelector(tb[r].kids, "previous")
         THEN "retHasButtons"
    ELSE "attached"

\* afterWin without the lines 152-158 check for buttons already in the section
afterWinNoButtonCheck(r, win) ==
    IF ~win THEN "retNoWin"
    ELSE IF tb[r].built = "no" THEN "retNoToolbar"
    ELSE "attached"

\* lines 143-158: the return the invocation leaves through, "attached" for none
afterWin(r, win) ==
    IF ~win THEN "retNoWin"
    ELSE IF tb[r].built = "no" THEN "retNoToolbar"
    ELSE IF querySelector(tb[r].kids, "next") \/ querySelector(tb[r].kids, "previous")
         THEN "retHasButtons"
    ELSE "attached"

\* appendButtons with the two scroll directions exchanged
appendButtonsSwapped(r) ==
    LET btnNext == addClick(getButton(r, "next"), r, -1)
        btnPrev == addClick(getButton(r, "previous"), r, 1)
    IN  Append(Append(tb[r].kids, btnPrev), btnNext)

\* lines 160-165: the section's children after the two buttons are appended
appendButtons(r) ==
    LET btnNext == addClick(getButton(r, "next"), r, 1)
        btnPrev == addClick(getButton(r, "previous"), r, -1)
    IN  Append(Append(tb[r].kids, btnPrev), btnNext)

\* line 167 left out: the tab is not recorded
addUpdatedTabDropped(r) == updatedTabs

\* line 167: this.#updatedTabs.add(reader.tabID)
addUpdatedTab(r) == updatedTabs \cup {TabID(r)}

\* lines 143-167: await Plugin.getIFrameWindow(iframe) resumes invocation i
ResumeWin(i) ==
    LET r == calls[i].reader
        to == afterWin(r, calls[i].pc = "gotWin")
    IN  /\ calls[i].pc \in {"gotWin", "gotNull"}
        /\ calls' = [calls EXCEPT ![i].pc = to]
        /\ tb' = IF to = "attached"
                 THEN [tb EXCEPT ![r].kids = appendButtons(r)]
                 ELSE tb
        /\ updatedTabs' = IF to = "attached" THEN addUpdatedTab(r) ELSE updatedTabs
        /\ UNCHANGED <<reg, listener, phase, startupP, lastObs, observerID, notifier>>

Next ==
    \/ \E r \in Readers, t \in {"snapshot", "pdf"} : HostOpenReader(r, t)
    \/ \E r \in Readers : HostRenderToolbarDom(r)
    \/ \E r \in Readers : HostFireRenderToolbar(r)
    \/ \E r \in Readers : \E k \in DOMAIN tb[r].kids : HostClick(r, k)
    \/ Startup
    \/ SettleStartup
    \/ Shutdown
    \/ \E i \in DOMAIN calls, ok \in BOOLEAN : ResumeReader(i, ok)
    \/ \E i \in DOMAIN calls : RejectInit(i)
    \/ \E i \in DOMAIN calls, l \in DocLookups : ResumeInit(i, l.doc, l.iframe)
    \/ \E i \in DOMAIN calls, w \in BOOLEAN : ResumeLoad(i, w)
    \/ \E i \in DOMAIN calls : ResumeWin(i)

Spec == Init /\ [][Next]_vars

----------------------------------------------------------------------------
\* The tab observer.

\* the ids Zotero.Notifier.registerObserver hands out
ObserverIds == {"o1", "o2"}

\* registerObserver() registering whatever #observerID holds
alreadyRegisteredIgnored == FALSE

\* line 94: if (this.#observerID)
alreadyRegistered == observerID # "none"

\* registerObserver(): throws when an observer is registered, else registers
\* one with the host and keeps the id the host returns
RegisterObserver ==
    /\ IF alreadyRegistered
       THEN /\ lastObs' = [NoObs EXCEPT !.kind = "registerObserver", !.target = "threw"]
            /\ UNCHANGED <<observerID, notifier>>
       ELSE \E id \in ObserverIds \ notifier :
                /\ observerID' = id
                /\ notifier' = notifier \cup {id}
                /\ lastObs' = [NoObs EXCEPT !.kind = "registerObserver",
                                            !.target = "returned"]
    /\ UNCHANGED <<reg, tb, listener, phase, startupP, updatedTabs, calls>>

\* unregisterObserver(): removes the registered observer, if there is one
UnregisterObserver ==
    /\ IF observerID # "none"
       THEN /\ notifier' = notifier \ {observerID}
            /\ observerID' = "none"
       ELSE UNCHANGED <<observerID, notifier>>
    /\ lastObs' = [NoObs EXCEPT !.kind = "unregisterObserver", !.target = "returned"]
    /\ UNCHANGED <<reg, tb, listener, phase, startupP, updatedTabs, calls>>

\* the host notifies the registered observer of an 'add' or 'load' of reader
\* r's tab: the callback looks the reader up and does nothing with it
HostNotifyTab(r) ==
    /\ notifier # {}
    /\ reg[r] # "none"
    /\ lastObs' = [NoObs EXCEPT !.kind = "notify", !.reader = r]
    /\ UNCHANGED <<reg, tb, listener, phase, startupP, updatedTabs, calls,
                   observerID, notifier>>

NextObs ==
    \/ \E r \in Readers, t \in {"snapshot", "pdf"} : HostOpenReader(r, t)
    \/ \E r \in Readers : HostRenderToolbarDom(r)
    \/ \E r \in Readers : HostFireRenderToolbar(r)
    \/ \E r \in Readers : \E k \in DOMAIN tb[r].kids : HostClick(r, k)
    \/ Startup
    \/ SettleStartup
    \/ Shutdown
    \/ \E i \in DOMAIN calls, ok \in BOOLEAN : ResumeReader(i, ok)
    \/ \E i \in DOMAIN calls : RejectInit(i)
    \/ \E i \in DOMAIN calls, l \in DocLookups : ResumeInit(i, l.doc, l.iframe)
    \/ \E i \in DOMAIN calls, w \in BOOLEAN : ResumeLoad(i, w)
    \/ \E i \in DOMAIN calls : ResumeWin(i)
    \/ RegisterObserver
    \/ UnregisterObserver
    \/ \E r \in Readers : HostNotifyTab(r)

ObsSpec == Init /\ [][NextObs]_vars

----------------------------------------------------------------------------
\* One tab whose signals may never resolve, the others with signals that
\* resolve and a DOM that is there.

\* the reader whose readiness, init or frame load may stay unresolved
Stalled == "A"

\* a signal of the stalled reader settles after all, in any way
SettleStalled(i) ==
    /\ calls[i].reader = Stalled
    /\ \/ \E ok \in BOOLEAN : ResumeReader(i, ok)
       \/ RejectInit(i)
       \/ \E l \in DocLookups : ResumeInit(i, l.doc, l.iframe)
       \/ \E w \in BOOLEAN : ResumeLoad(i, w)
       \/ ResumeWin(i)

\* the signal invocation i of another reader waits for resolves, and the
\* lookups that follow find the document, the iframe and its window
Resolve(i) ==
    /\ i \in DOMAIN calls
    /\ calls[i].reader # Stalled
    /\ \/ ResumeReader(i, TRUE)
       \/ \E f \in {g \in FrameLookups : g.tagName \in IframeTags} : ResumeInit(i, TRUE, f)
       \/ ResumeLoad(i, TRUE)
       \/ ResumeWin(i)

StallNext ==
    \/ \E r \in Readers, t \in {"snapshot", "pdf"} : HostOpenReader(r, t)
    \/ \E r \in Readers : HostRenderToolbarDom(r)
    \/ \E r \in Readers : HostFireRenderToolbar(r)
    \/ Startup
    \/ SettleStartup
    \/ Shutdown
    \/ \E i \in DOMAIN calls : SettleStalled(i)
    \/ \E i \in 1..MaxCalls : Resolve(i)

\* the continuation of a resolved promise is run: the job queue is served
StallSpec == Init /\ [][StallNext]_vars /\ \A i \in 1..MaxCalls : WF_vars(Resolve(i))

----------------------------------------------------------------------------
\* Properties.

\* the invocation a step started, 0 if it started none (startup() starts its
\* invocations when no other exists, a render event starts at most one)
Started == IF Len(calls') > Len(calls) THEN Len(calls') ELSE 0

\* invocation i ran in this step and reached position p
Reached(i, p) == i \in DOMAIN calls /\ calls[i].pc # p /\ calls'[i].pc = p

\* the section holds exactly one "previous" and one "next" button
OnePair(kids) == CountId(kids, "previous") = 1 /\ CountId(kids, "next") = 1

\* C1: in every reachable state each reader's toolbar section holds at most one
\* "previous" and at most one "next" button, and both or neither.
C1_AtMostOnePair ==
    \A r \in Readers :
        /\ CountId(tb[r].kids, "previous") <= 1
        /\ CountId(tb[r].kids, "next") <= 1
        /\ CountId(tb[r].kids, "previous") = CountId(tb[r].kids, "next")

\* two invocations for one tab were in flight at once; one appended the pair
\* and the other found it
C1_Witness ==
    \E i, j \in DOMAIN calls :
        /\ calls[i].reader = calls[j].reader
        /\ calls[i].pc = "attached"
        /\ calls[j].pc = "retHasButtons"
        /\ OnePair(tb[calls[i].reader].kids)

\* C2: an invocation that runs to the end leaves exactly one pair in the tab's
\* toolbar and the tab recorded; an invocation for the same reader started
\* after that returns at once, and its step changes no toolbar and not the set.
C2_Idempotent ==
    [][\A r \in Readers :
        /\ \A i \in DOMAIN calls :
               calls[i].reader = r /\ Reached(i, "attached")
               => OnePair(tb'[r].kids) /\ TabID(r) \in updatedTabs'
        /\ (/\ Started # 0
            /\ calls'[Started].reader = r
            /\ \E j \in DOMAIN calls : calls[j].reader = r /\ calls[j].pc = "attached")
           => /\ calls'[Started].pc = "retGuard"
              /\ tb' = tb
              /\ updatedTabs' = updatedTabs
              /\ \A j \in DOMAIN calls : calls'[j] = calls[j]]_vars

\* a first invocation attached, a second one for the same reader returned at
\* the guard, and the toolbar holds the one pair
C2_Witness ==
    \E i, j \in DOMAIN calls :
        /\ i < j
        /\ calls[i].reader = calls[j].reader
        /\ calls[i].pc = "attached"
        /\ calls[j].pc = "retGuard"
        /\ OnePair(tb[calls[i].reader].kids)

\* the invocations for tab t that went past the line 129 guard
PastGuard(t) == {i \in DOMAIN calls : TabID(calls[i].reader) = t /\ calls[i].pc # "retGuard"}

\* C3 as stated: for every tab identifier at most one invocation ever goes
\* past the set guard.
C3_PastGuardOnce == \A r \in Readers : Cardinality(PastGuard(TabID(r))) <= 1

\* C3 amended: once a tab identifier is in the set, no invocation started for
\* it goes past the guard.
C3_NoEntryOnceRecorded ==
    [][Started # 0 /\ TabID(calls'[Started].reader) \in updatedTabs
       => calls'[Started].pc = "retGuard"]_vars

\* a render event for a recorded tab was stopped at the guard, after two
\* invocations for that tab would have had to be past it
C3_Witness ==
    \E i \in DOMAIN calls :
        /\ calls[i].pc = "retGuard"
        /\ calls[i].src = "render"
        /\ TabID(calls[i].reader) \in updatedTabs

\* the readers startup() started an invocation for
StartupReaders(c) == {c[i].reader : i \in StartupCalls(c)}

\* the lookups of every startup invocation succeeded, on a toolbar section the
\* host rendered once and has not rebuilt
StartupDomPresent ==
    \A i \in StartupCalls(calls') :
        /\ calls'[i].pc \notin {"retNotReady", "retNoWin", "retNoToolbar"}
        /\ tb'[calls'[i].reader].built = "once"

\* C4: startup() starts an invocation for exactly the snapshot readers of the
\* registry; when its promise fulfils, with every such reader's frame and
\* toolbar found, each of them has exactly one pair and is in the set, no
\* other kind of reader is, and with no render event the set is exactly theirs.
C4_StartupAttachesAll ==
    [][/\ phase = "new" /\ phase' = "started"
          => StartupReaders(calls') = {r \in Readers : reg[r] = "snapshot"}
       /\ startupP # "fulfilled" /\ startupP' = "fulfilled" /\ StartupDomPresent
          => /\ \A r \in StartupReaders(calls') :
                    OnePair(tb'[r].kids) /\ TabID(r) \in updatedTabs'
             /\ \A r \in Readers : reg[r] # "snapshot" => TabID(r) \notin updatedTabs'
             /\ StartupCalls(calls') = DOMAIN calls'
                => updatedTabs' = {TabID(r) : r \in StartupReaders(calls')}]_vars

\* startup() has completed for two existing snapshot tabs, both attached
C4_Witness ==
    /\ startupP = "fulfilled"
    /\ Len(calls) = 2
    /\ \A i \in DOMAIN calls : calls[i].src = "startup" /\ calls[i].pc = "attached"
    /\ calls[1].reader # calls[2].reader
    /\ updatedTabs = {TabID(calls[1].reader), TabID(calls[2].reader)}
    /\ \A r \in Readers : OnePair(tb[r].kids) /\ tb[r].built = "once"

\* C5 as stated: once startup()'s promise has settled, none of the invocations
\* it started is still suspended.
C5_StartupWaitsForAll ==
    startupP \in {"fulfilled", "rejected"}
    => \A i \in StartupCalls(calls) : calls[i].pc \notin Suspended

\* C6: no invocation exists for a reader that is not a snapshot reader, such a
\* reader's toolbar holds nothing but the host's children and its tab is not in
\* the set; a render event for it changes nothing the plugin owns.
C6_NonSnapshotUntouched ==
    /\ [](\A r \in Readers :
            reg[r] # "snapshot"
            => /\ \A i \in DOMAIN calls : calls[i].reader # r
               /\ tb[r].kids \in {<< >>, HostKids}
               /\ TabID(r) \notin updatedTabs)
    /\ [][\A r \in Readers :
            /\ lastObs' # lastObs
            /\ lastObs'.kind = "renderToolbar"
            /\ lastObs'.reader = r
            /\ reg[r] # "snapshot"
            => UNCHANGED <<tb, updatedTabs, calls, startupP, listener>>]_vars

\* a render event was dispatched, with the listener registered, for a pdf
\* reader whose toolbar is rendered, while a snapshot reader got its buttons
C6_Witness ==
    /\ listener
    /\ lastObs.kind = "renderToolbar"
    /\ reg[lastObs.reader] = "pdf"
    /\ tb[lastObs.reader].kids = HostKids
    /\ \E r \in Readers : reg[r] = "snapshot" /\ OnePair(tb[r].kids)

\* the step left every toolbar and the set as they were
NoMutation == tb' = tb /\ updatedTabs' = updatedTabs

\* the step ended invocation i with its promise fulfilled
NoThrow(i) == calls'[i].pc \in Fulfilled

\* C7: an invocation that finds no document, no frame element or an element
\* that is not an iframe, that got no content
\* window, or that finds no toolbar section returns normally and changes no
\* toolbar and not the set; one that finds a "next" or "previous" button in the
\* section returns without appending; startup()'s promise rejects only when an
\* invocation it started has rejected.
C7_SoftFailures ==
    [][/\ startupP' = "rejected" /\ startupP # "rejected"
          => \E i \in StartupCalls(calls) : calls[i].pc = "rejected"
       /\ \A i \in DOMAIN calls :
        LET r == calls[i].reader IN
        calls'[i].pc # calls[i].pc =>
        /\ (/\ calls[i].pc = "waitInit"
            /\ calls'[i].pc # "rejected"
            /\ \/ calls'[i].doc = "null"
               \/ calls'[i].iframe = "null"
               \/ calls'[i].iframe = "prefixed")
           => calls'[i].pc = "retNotReady" /\ NoThrow(i) /\ NoMutation
        /\ calls[i].pc = "gotNull"
           => calls'[i].pc = "retNoWin" /\ NoThrow(i) /\ NoMutation
        /\ calls[i].pc = "gotWin" /\ tb[r].built = "no"
           => calls'[i].pc = "retNoToolbar" /\ NoThrow(i) /\ NoMutation
        /\ (/\ calls[i].pc = "gotWin"
            /\ tb[r].built # "no"
            /\ querySelector(tb[r].kids, "next") \/ querySelector(tb[r].kids, "previous"))
           => calls'[i].pc = "retHasButtons" /\ NoThrow(i) /\ NoMutation]_vars

\* one invocation returned because the element it found is not an iframe,
\* another for want of a toolbar section, and nothing was recorded
C7_Witness ==
    /\ \E i \in DOMAIN calls :
           /\ calls[i].pc = "retNotReady"
           /\ calls[i].doc = "document"
           /\ calls[i].iframe = "prefixed"
    /\ \E i \in DOMAIN calls : calls[i].pc = "retNoToolbar"
    /\ updatedTabs = {}

\* the scrollByPages calls a click on the button makes
ScrollsOf(r, id) ==
    IF id = "next" THEN << [win |-> r, delta |-> 1] >>
    ELSE IF id = "previous" THEN << [win |-> r, delta |-> -1] >>
    ELSE << >>

\* C8: a click on a reader's "next" button calls scrollByPages(1) on that
\* reader's frame window and nothing else, a click on its "previous" button
\* scrollByPages(-1); every button in a toolbar is wired that way.
C8_ClickWiring ==
    /\ lastObs.kind = "click" => lastObs.scrolls = ScrollsOf(lastObs.reader, lastObs.target)
    /\ \A r \in Readers : \A k \in DOMAIN tb[r].kids :
           tb[r].kids[k].click = ScrollsOf(r, tb[r].kids[k].id)

\* "next" was clicked in one reader's toolbar while the other reader has its
\* own buttons too
C8_Witness ==
    /\ lastObs.kind = "click"
    /\ lastObs.target = "next"
    /\ lastObs.scrolls = << [win |-> lastObs.reader, delta |-> 1] >>
    /\ \A r \in Readers : OnePair(tb[r].kids)

\* C9: shutdown() unregisters the listener and changes no toolbar and not the
\* set; after it no step starts an invocation.
C9_ShutdownUnsubscribes ==
    [][/\ phase = "started" /\ phase' = "stopped" => ~listener' /\ NoMutation
       /\ phase = "stopped" => Started = 0 /\ Len(calls') = Len(calls)]_vars

\* after shutdown() a render event was dispatched for a snapshot reader that
\* has no invocation, while the buttons inserted earlier are still there
C9_Witness ==
    /\ phase = "stopped"
    /\ lastObs.kind = "renderToolbar"
    /\ reg[lastObs.reader] = "snapshot"
    /\ \A i \in DOMAIN calls : calls[i].reader # lastObs.reader
    /\ \E r \in Readers : OnePair(tb[r].kids) /\ TabID(r) \in updatedTabs

\* C10: getButton gives id "next" and title "Next Page" for "next", id
\* "previous" and title "Previous Page" for "previous", tabIndex -1 for both,
\* without listeners, and the buttons in the toolbars are those it made for
\* that reader's document.
C10_ButtonIdentity ==
    /\ \A d \in Readers :
        /\ getButton(d, "next").id = "next"
        /\ getButton(d, "next").title = "Next Page"
        /\ getButton(d, "previous").id = "previous"
        /\ getButton(d, "previous").title = "Previous Page"
        /\ \A t \in {"next", "previous"} :
              getButton(d, t).tabIndex = -1 /\ getButton(d, t).click = << >>
    /\ \A r \in Readers : \A k \in DOMAIN tb[r].kids :
        LET b == tb[r].kids[k] IN
        b # HostKids[1] =>
            /\ b.id \in {"next", "previous"}
            /\ [b EXCEPT !.click = << >>] = getButton(r, b.id)
            /\ b.title = (IF b.id = "next" THEN "Next Page" ELSE "Previous Page")

\* both buttons getButton made are in a toolbar, "previous" before "next"
C10_Witness ==
    \E r \in Readers :
        /\ Len(tb[r].kids) = 3
        /\ tb[r].kids[2].id = "previous" /\ tb[r].kids[2].title = "Previous Page"
        /\ tb[r].kids[3].id = "next" /\ tb[r].kids[3].title = "Next Page"

\* C11 as stated: a render event for a recorded tab whose toolbar the host has
\* rebuilt, so that it holds no buttons, starts an invocation that leaves
\* exactly one pair in the toolbar when it has returned.
C11_RebuiltToolbarGetsPair ==
    [][\A r \in Readers :
        (/\ Started # 0
         /\ calls'[Started].reader = r
         /\ calls'[Started].src = "render"
         /\ TabID(r) \in updatedTabs
         /\ tb[r].built = "again"
         /\ ~OnePair(tb[r].kids)
         /\ calls'[Started].pc \in Fulfilled)
        => OnePair(tb'[r].kids)]_vars

\* invocation i found the frame's window, a toolbar section and no button in it
LookupsSucceed(i) ==
    /\ calls[i].pc = "gotWin"
    /\ tb[calls[i].reader].built # "no"
    /\ ~querySelector(tb[calls[i].reader].kids, "next")
    /\ ~querySelector(tb[calls[i].reader].kids, "previous")

\* C12: an invocation that ends at a soft failure does not record the tab; a
\* render event for a tab not in the set starts an invocation at the first
\* await with its locals unset; an invocation whose lookups succeed ends with
\* one pair in the toolbar and the tab recorded.
C12_RetryFromScratch ==
    [][/\ \A i \in DOMAIN calls :
            /\ calls[i].pc \in Suspended /\ calls'[i].pc \in SoftFail
               => updatedTabs' = updatedTabs
            /\ LookupsSucceed(i) /\ calls'[i].pc # calls[i].pc
               => /\ calls'[i].pc = "attached"
                  /\ OnePair(tb'[calls[i].reader].kids)
                  /\ TabID(calls[i].reader) \in updatedTabs'
       /\ (/\ Started # 0
           /\ calls'[Started].src = "render"
           /\ TabID(calls'[Started].reader) \notin updatedTabs)
          => calls'[Started] = [reader |-> calls'[Started].reader, src |-> "render",
                                pc |-> "waitReader", doc |-> "unset",
                                iframe |-> "unset"]]_vars

\* an invocation soft-failed, and a later one, started by a render event for
\* the same tab, attached the buttons
C12_Witness ==
    \E i, j \in DOMAIN calls :
        /\ i < j
        /\ calls[i].reader = calls[j].reader
        /\ calls[i].pc \in {"retNotReady", "retNoWin", "retNoToolbar"}
        /\ calls[j].src = "render"
        /\ calls[j].pc = "attached"
        /\ OnePair(tb[calls[j].reader].kids)
        /\ TabID(calls[j].reader) \in updatedTabs

\* the invocations for reader r that ran on to the toolbar checks
RanThrough(r) ==
    {i \in DOMAIN calls : calls[i].reader = r /\ calls[i].pc \in {"attached", "retHasButtons"}}

\* C14: when invocations for one tab were in flight together and ran through,
\* on a toolbar section the host has not rebuilt, exactly one of them appended
\* the pair, the toolbar holds exactly one pair and the tab is recorded.
C14_RaceEndsWithOnePair ==
    \A r \in Readers :
        RanThrough(r) # {} /\ tb[r].built = "once"
        => /\ Cardinality({i \in RanThrough(r) : calls[i].pc = "attached"}) = 1
           /\ OnePair(tb[r].kids)
           /\ TabID(r) \in updatedTabs

\* startup's invocation and a render event's invocation for the same tab both
\* passed the guard; the later one got to the toolbar first
C14_Witness ==
    /\ Len(calls) = 2
    /\ calls[1].reader = calls[2].reader
    /\ calls[1].src = "startup" /\ calls[1].pc = "retHasButtons"
    /\ calls[2].src = "render" /\ calls[2].pc = "attached"
    /\ OnePair(tb[calls[1].reader].kids)
    /\ updatedTabs = {TabID(calls[1].reader)}

\* the moves of an invocation from one position to the next
Moves ==
    ({"waitReader"} \X {"waitInit", "rejected"})
    \cup ({"waitInit"} \X {"retNotReady", "gotWin", "waitLoad", "rejected"})
    \cup ({"waitLoad"} \X {"gotWin", "gotNull"})
    \cup ({"gotWin"} \X {"retNoToolbar", "retHasButtons", "attached"})
    \cup ({"gotNull"} \X {"retNoWin"})

\* C15: an invocation passes the readiness await, then the init await, then,
\* without a content window, the load event, in that order; only the step of an
\* invocation that has a content window appends buttons or records a tab, and
\* one that got none after load appends nothing.
C15_AwaitOrder ==
    [][/\ \A i \in DOMAIN calls :
            calls'[i].pc # calls[i].pc => <<calls[i].pc, calls'[i].pc>> \in Moves
       /\ Started # 0 => calls'[Started].pc \in {"waitReader", "retGuard"}
       /\ \A r \in Readers :
            (\/ querySelector(tb'[r].kids, "next") /\ ~querySelector(tb[r].kids, "next")
             \/ querySelector(tb'[r].kids, "previous") /\ ~querySelector(tb[r].kids, "previous")
             \/ TabID(r) \in updatedTabs' \ updatedTabs)
            => \E i \in DOMAIN calls :
                   /\ calls[i].reader = r
                   /\ calls[i].pc = "gotWin"
                   /\ calls[i].doc = "document" /\ calls[i].iframe = "element"
                   /\ calls'[i].pc = "attached"]_vars

\* one invocation got no window after load and returned, another attached
C15_Witness ==
    /\ \E i \in DOMAIN calls : calls[i].pc = "retNoWin"
    /\ \E j \in DOMAIN calls :
           calls[j].pc = "attached" /\ OnePair(tb[calls[j].reader].kids)

\* C16: while startup() is suspended on the existing tabs the listener is
\* registered (unless shutdown() has run), and a render event for a snapshot
\* reader dispatched then starts an invocation for it.
C16_ListenerBeforeAttach ==
    /\ [](phase = "started" => listener)
    /\ [][(/\ startupP = "pending"
           /\ phase = "started"
           /\ lastObs' # lastObs
           /\ lastObs'.kind = "renderToolbar"
           /\ isSnapshotReader(lastObs'.reader))
          => /\ Started # 0
             /\ calls'[Started].reader = lastObs'.reader
             /\ calls'[Started].src = "render"]_vars

\* startup() is still suspended on an existing tab and a render event's
\* invocation is in flight
C16_Witness ==
    /\ startupP = "pending"
    /\ lastObs.kind = "renderToolbar"
    /\ \E i \in DOMAIN calls : calls[i].src = "startup" /\ calls[i].pc \in Suspended
    /\ \E j \in DOMAIN calls :
           /\ calls[j].src = "render"
           /\ calls[j].reader = lastObs.reader
           /\ calls[j].pc \in Suspended

\* C18: shutdown() leaves the invocations as they are, and after it an
\* invocation whose lookups succeed still appends the pair and records the tab.
C18_NoCancellation ==
    [][/\ phase = "started" /\ phase' = "stopped" => calls' = calls
       /\ \A i \in DOMAIN calls :
            phase = "stopped" /\ LookupsSucceed(i) /\ calls'[i].pc # calls[i].pc
            => /\ calls'[i].pc = "attached"
               /\ tb'[calls[i].reader].kids = appendButtons(calls[i].reader)
               /\ updatedTabs' = updatedTabs \cup {TabID(calls[i].reader)}]_vars

\* shutdown() has run while an invocation was in flight, and that invocation
\* now holds the window and finds a toolbar section without buttons
C18_Witness ==
    /\ phase = "stopped"
    /\ ~listener
    /\ \E i \in DOMAIN calls : LookupsSucceed(i) /\ afterWin(calls[i].reader, TRUE) = "attached"

\* the step is a call of the plugin method recorded as kind
Called(kind) == lastObs' # lastObs /\ lastObs'.kind = kind

\* C17: no step removes a tab id from the attached-tab set; an id enters it
\* only in the step of an invocation for that tab that appends the previous
\* button and then the next button to the tab's toolbar section; so every
\* recorded tab has an invocation that attached a pair.
C17_SetOnlyGrows ==
    /\ [][/\ updatedTabs \subseteq updatedTabs'
          /\ \A r \in Readers :
                TabID(r) \in updatedTabs' \ updatedTabs
                => /\ \E i \in DOMAIN calls :
                          /\ calls[i].reader = r
                          /\ calls[i].pc = "gotWin"
                          /\ calls'[i].pc = "attached"
                   /\ Len(tb'[r].kids) = Len(tb[r].kids) + 2
                   /\ SubSeq(tb'[r].kids, 1, Len(tb[r].kids)) = tb[r].kids
                   /\ tb'[r].kids[Len(tb[r].kids) + 1].id = "previous"
                   /\ tb'[r].kids[Len(tb[r].kids) + 2].id = "next"]_vars
    /\ [](\A r \in Readers :
            TabID(r) \in updatedTabs
            => \E i \in DOMAIN calls : calls[i].reader = r /\ calls[i].pc = "attached")

\* both tabs are still recorded, one attached by startup's invocation and the
\* other by a render event's, after shutdown(), a rebuild of a toolbar and a
\* call of unregisterObserver() that removed the observer
C17_Witness ==
    /\ updatedTabs = {TabID(r) : r \in Readers}
    /\ Len(calls) = 2
    /\ calls[1].src = "startup" /\ calls[1].pc = "attached"
    /\ calls[2].src = "render" /\ calls[2].pc = "attached"
    /\ phase = "stopped"
    /\ \E r \in Readers : tb[r].built = "again" /\ ~OnePair(tb[r].kids)
    /\ lastObs.kind = "unregisterObserver"
    /\ observerID = "none"

\* C19: the host holds exactly the observer the plugin holds the id of;
\* registerObserver() with an observer registered throws and changes nothing,
\* without one it registers one observer; unregisterObserver() leaves none
\* registered, and without one registered it changes nothing.
C19_ObserverGuard ==
    /\ [](notifier = IF observerID = "none" THEN {} ELSE {observerID})
    /\ [][/\ Called("registerObserver") /\ observerID # "none"
             => /\ lastObs'.target = "threw"
                /\ UNCHANGED <<observerID, notifier>>
          /\ Called("registerObserver") /\ observerID = "none"
             => /\ lastObs'.target = "returned"
                /\ observerID' \in ObserverIds
                /\ notifier' = {observerID'}
          /\ Called("unregisterObserver")
             => /\ lastObs'.target = "returned"
                /\ observerID' = "none"
                /\ notifier' = {}
          /\ Called("unregisterObserver") /\ observerID = "none"
             => UNCHANGED <<observerID, notifier>>]_vars

\* registerObserver() has thrown and the first registration stands
C19_Witness ==
    /\ lastObs.kind = "registerObserver"
    /\ lastObs.target = "threw"
    /\ observerID \in ObserverIds
    /\ notifier = {observerID}

\* C13: with a reader whose signals may never resolve, every other snapshot
\* reader that has an invocation in flight and a toolbar section rendered is
\* eventually attached, whether startup or a render event started the
\* invocation.
C13_StallIsolation ==
    \A r \in Readers \ {Stalled} :
        (/\ tb[r].built # "no"
         /\ \E i \in DOMAIN calls : calls[i].reader = r /\ calls[i].pc \in Suspended)
        ~> (/\ TabID(r) \in updatedTabs
            /\ \E i \in DOMAIN calls : calls[i].reader = r /\ calls[i].pc = "attached")

\* startup's invocation for the stalled reader still waits for readiness, and
\* startup's invocation for another reader, started after it, has attached
C13_Witness ==
    /\ Len(calls) = 2
    /\ calls[1].reader = Stalled /\ calls[1].src = "startup"
    /\ calls[1].pc = "waitReader"
    /\ calls[2].reader # Stalled /\ calls[2].src = "startup"
    /\ calls[2].pc = "attached"
    /\ startupP = "pending"
    /\ updatedTabs = {TabID(calls[2].reader)}
    /\ OnePair(tb[calls[2].reader].kids)
====
